---- MODULE Spec2Model ----
(***************************************************************************)
(* A model of MCSA.py, the StockSmart monitor: a single-threaded polling   *)
(* loop that fetches each configured product page, searches it for the     *)
(* in-stock marker, alerts through Gotify on the transition into stock,    *)
(* sends one aggregate report per local calendar date and sleeps.          *)
(*                                                                         *)
(* Strings are sequences of one-character strings, so that split, strip,   *)
(* replace, title and int are computed as Python computes them.            *)
(***************************************************************************)
EXTENDS Integers, Sequences, FiniteSets, TLC

\* ------------------------------------------------------------------ bounds

\* No new poll cycle is started once some URL has had this many stock alerts.
MaxAlerts == 2
\* Local calendar dates are 0..MaxDate.
MaxDate == 1

\* --------------------------------------------------------- string helpers

IsSpace(c) == c = " "

RECURSIVE LStrip(_)
LStrip(s) == IF s # <<>> /\ IsSpace(Head(s)) THEN LStrip(Tail(s)) ELSE s

RECURSIVE RStrip(_)
RStrip(s) ==
  IF s # <<>> /\ IsSpace(s[Len(s)]) THEN RStrip(SubSeq(s, 1, Len(s) - 1)) ELSE s

\* str.strip()
Strip(s) == RStrip(LStrip(s))

\* str.split(sep): the pieces between the separators, empty pieces kept.
RECURSIVE SplitAcc(_, _, _)
SplitAcc(s, sep, cur) ==
  IF s = <<>> THEN <<cur>>
  ELSE IF Head(s) = sep THEN <<cur>> \o SplitAcc(Tail(s), sep, <<>>)
  ELSE SplitAcc(Tail(s), sep, Append(cur, Head(s)))

Split(s, sep) == SplitAcc(s, sep, <<>>)

\* str.replace(old, new) for one-character operands.
Replace(s, old, new) == [i \in 1..Len(s) |-> IF s[i] = old THEN new ELSE s[i]]

Upper(c) == CASE c = "a" -> "A" [] c = "b" -> "B" [] c = "x" -> "X" [] OTHER -> c
Lower(c) == CASE c = "A" -> "a" [] c = "B" -> "b" [] c = "X" -> "x" [] OTHER -> c
IsLetter(c) == c \in {"a", "b", "x", "A", "B", "X"}

\* str.title(): a letter that follows a non-letter is upper-cased, every
\* other letter lower-cased.
Title(s) ==
  [i \in 1..Len(s) |->
     IF i = 1 \/ ~IsLetter(s[i - 1]) THEN Upper(s[i]) ELSE Lower(s[i])]

DigitValue(c) ==
  CASE c = "0" -> 0 [] c = "1" -> 1 [] c = "2" -> 2 [] c = "3" -> 3
    [] c = "4" -> 4 [] c = "5" -> 5 [] c = "6" -> 6 [] c = "7" -> 7
    [] c = "8" -> 8 [] c = "9" -> 9

\* int(s) for a string of decimal digits.
RECURSIVE ParseInt(_)
ParseInt(s) ==
  IF Len(s) = 1 THEN DigitValue(s[1])
  ELSE 10 * ParseInt(SubSeq(s, 1, Len(s) - 1)) + DigitValue(s[Len(s)])

\* needle in haystack, for strings.
Contains(haystack, needle) ==
  \E i \in 1..(Len(haystack) - Len(needle) + 1) :
     SubSeq(haystack, i, i + Len(needle) - 1) = needle

\* ------------------------------------------------------------ environment

\* An environment variable is unset, or set to a string.
Unset == [set |-> FALSE, val |-> <<>>]
SetTo(s) == [set |-> TRUE, val |-> s]

\* os.getenv(name, default)
Getenv(var, default) == IF var.set THEN var.val ELSE default

\* Python's truth value of os.getenv(name): None and "" are false.
Truthy(var) == var.set /\ var.val # <<>>

\* The values of the environment explored.  PRODUCT_URLS: unset, empty,
\* separators only, one URL with a path and hyphens, two URLs with blanks
\* and a trailing comma, the same URL twice.
ProductUrlsValues ==
  { Unset,
    SetTo(<<>>),
    SetTo(<<" ", ",", " ">>),
    SetTo(<<"x", "/", "a", "-", "b">>),
    SetTo(<<"a", ",", " ", "b", ",">>),
    SetTo(<<"a", ",", "a">>) }

\* The rest of the environment: everything set up and defaulted; no Gotify
\* endpoint, a late report hour and equal intervals; an empty Gotify token.
Profiles ==
  { [GOTIFY_URL |-> SetTo(<<"h">>), GOTIFY_TOKEN |-> SetTo(<<"t">>),
     DAILY_REPORT_HOUR |-> Unset, IN_STOCK_INTERVAL |-> Unset,
     CHECK_INTERVAL |-> Unset],
    [GOTIFY_URL |-> Unset, GOTIFY_TOKEN |-> SetTo(<<"t">>),
     DAILY_REPORT_HOUR |-> SetTo(<<"2", "3">>),
     IN_STOCK_INTERVAL |-> SetTo(<<"3", "0", "0">>),
     CHECK_INTERVAL |-> Unset],
    [GOTIFY_URL |-> SetTo(<<"h">>), GOTIFY_TOKEN |-> SetTo(<<>>),
     DAILY_REPORT_HOUR |-> Unset, IN_STOCK_INTERVAL |-> Unset,
     CHECK_INTERVAL |-> SetTo(<<"6", "0">>)] }

Environments ==
  { [PRODUCT_URLS |-> u, GOTIFY_URL |-> p.GOTIFY_URL,
     GOTIFY_TOKEN |-> p.GOTIFY_TOKEN,
     DAILY_REPORT_HOUR |-> p.DAILY_REPORT_HOUR,
     IN_STOCK_INTERVAL |-> p.IN_STOCK_INTERVAL,
     CHECK_INTERVAL |-> p.CHECK_INTERVAL] :
    u \in ProductUrlsValues, p \in Profiles }

\* ------------------------------------------------------------------ config

\* get_product_urls without its test of the raw value.
GetProductUrlsNoExit(var) ==
  LET pieces == Split(Getenv(var, <<>>), ",")
      stripped == [i \in 1..Len(pieces) |-> Strip(pieces[i])]
      NonEmpty(u) == u # <<>>
  IN  [exit |-> FALSE, urls |-> SelectSeq(stripped, NonEmpty)]

\* get_product_urls: exit(1) when PRODUCT_URLS is unset or empty, else the
\* stripped, non-empty pieces between the commas.
GetProductUrls(var) ==
  LET urls == Getenv(var, <<>>)
      pieces == Split(urls, ",")
      stripped == [i \in 1..Len(pieces) |-> Strip(pieces[i])]
      NonEmpty(u) == u # <<>>
  IN  IF urls = <<>>
        THEN [exit |-> TRUE, urls |-> <<>>]
        ELSE [exit |-> FALSE, urls |-> SelectSeq(stripped, NonEmpty)]

GetCheckInterval(var) == ParseInt(Getenv(var, <<"3", "0", "0">>))
GetInStockInterval(var) == ParseInt(Getenv(var, <<"3", "6", "0", "0">>))
GetDailyReportHour(var) == ParseInt(Getenv(var, <<"9">>))

\* ---------------------------------------------------------------- notifier

SendOutcomes == {"ok", "transport_error", "http_error"}

\* requests.post raises on a transport error.
PostRaises(outcome) == outcome = "transport_error"
\* response.raise_for_status() raises on a non-2xx response.
StatusRaises(outcome) == outcome = "http_error"

\* send_gotify without its try/except: what requests.post or
\* raise_for_status raise leaves the function.
SendGotifyNoCatch(gotify_url, gotify_token, outcome) ==
  IF ~Truthy(gotify_url) \/ ~Truthy(gotify_token)
    THEN [posted |-> FALSE, delivered |-> FALSE, raised |-> FALSE]
    ELSE [posted |-> TRUE,
          delivered |-> ~PostRaises(outcome) /\ ~StatusRaises(outcome),
          raised |-> PostRaises(outcome) \/ StatusRaises(outcome)]

\* send_gotify testing the endpoint only, not the token.
SendGotifyUrlOnly(gotify_url, gotify_token, outcome) ==
  IF ~Truthy(gotify_url)
    THEN [posted |-> FALSE, delivered |-> FALSE, raised |-> FALSE]
    ELSE [posted |-> TRUE,
          delivered |-> ~PostRaises(outcome) /\ ~StatusRaises(outcome),
          raised |-> FALSE]

\* send_gotify: returns at once when the endpoint or the token is missing;
\* otherwise posts, and the try/except swallows whatever post or
\* raise_for_status raise.  posted: a request was issued; delivered: it was
\* accepted; raised: an exception left the function.
SendGotify(gotify_url, gotify_token, outcome) ==
  IF ~Truthy(gotify_url) \/ ~Truthy(gotify_token)
    THEN [posted |-> FALSE, delivered |-> FALSE, raised |-> FALSE]
    ELSE [posted |-> TRUE,
          delivered |-> ~PostRaises(outcome) /\ ~StatusRaises(outcome),
          raised |-> FALSE]

\* What a send_gotify call logs: skipped, or the outcome of the request.
SendLog(sent, outcome) == IF sent.posted THEN outcome ELSE "skipped"

\* ---------------------------------------------------------------- detector

\* The in-stock marker 'inStock':'True', as two tokens of page text.
Marker == <<"'inStock':", "'True'">>

\* A detector that searches for the key alone, whatever its value.
DetectKeyOnly(page_source) == Contains(page_source, <<"'inStock':">>)

\* "'inStock':'True'" in page_source
Detect(page_source) == Contains(page_source, Marker)

\* The rendered pages a fetch may return, by whether the marker is in them.
PagesWithMarker ==
  { <<"'inStock':", "'True'">>,
    <<"<html>", "'inStock':", "'True'", "</html>">> }
PagesWithoutMarker ==
  { <<>>,
    <<"'inStock':", "'False'">>,
    <<"'inStock':", " ", "'True'">>,
    <<"'instock':", "'true'">> }
Pages == PagesWithMarker \cup PagesWithoutMarker

\* product_url.split("/")[-1].replace("-", " ").title()
ProductName(url) ==
  LET parts == Split(url, "/")
  IN  Title(Replace(parts[Len(parts)], "-", " "))

\* check_stock without the discard of its else branch.
CheckStockNoDiscard(product_url, notified, page_source, sent) ==
  IF Contains(page_source, Marker)
    THEN IF product_url \notin notified
           THEN [raised |-> sent.raised, ret |-> ~sent.raised, alert |-> TRUE,
                 notified |-> IF sent.raised THEN notified
                              ELSE notified \cup {product_url}]
           ELSE [raised |-> FALSE, ret |-> TRUE, alert |-> FALSE,
                 notified |-> notified]
    ELSE [raised |-> FALSE, ret |-> FALSE, alert |-> FALSE,
          notified |-> notified]

\* check_stock adding the URL to the notified set only when the alert was
\* delivered.
CheckStockAddIfDelivered(product_url, notified, page_source, sent) ==
  IF Contains(page_source, Marker)
    THEN IF product_url \notin notified
           THEN [raised |-> sent.raised, ret |-> ~sent.raised, alert |-> TRUE,
                 notified |-> IF sent.delivered THEN notified \cup {product_url}
                              ELSE notified]
           ELSE [raised |-> FALSE, ret |-> TRUE, alert |-> FALSE,
                 notified |-> notified]
    ELSE [raised |-> FALSE, ret |-> FALSE, alert |-> FALSE,
          notified |-> notified \ {product_url}]

\* check_stock emptying the notified set when a URL is out of stock.
CheckStockClearAll(product_url, notified, page_source, sent) ==
  IF Contains(page_source, Marker)
    THEN IF product_url \notin notified
           THEN [raised |-> sent.raised, ret |-> ~sent.raised, alert |-> TRUE,
                 notified |-> IF sent.raised THEN notified
                              ELSE notified \cup {product_url}]
           ELSE [raised |-> FALSE, ret |-> TRUE, alert |-> FALSE,
                 notified |-> notified]
    ELSE [raised |-> FALSE, ret |-> FALSE, alert |-> FALSE, notified |-> {}]

\* check_stock after the fetch: the new notified set, the value returned,
\* whether send_gotify was called, and whether an exception left the call
\* (sent is what the send_gotify call does if it is made).
CheckStock(product_url, notified, page_source, sent) ==
  IF Detect(page_source)
    THEN IF product_url \notin notified
           THEN IF sent.raised
                  THEN [raised |-> TRUE, ret |-> FALSE, alert |-> TRUE,
                        notified |-> notified]
                  ELSE [raised |-> FALSE, ret |-> TRUE, alert |-> TRUE,
                        notified |-> notified \cup {product_url}]
           ELSE [raised |-> FALSE, ret |-> TRUE, alert |-> FALSE,
                 notified |-> notified]
    ELSE [raised |-> FALSE, ret |-> FALSE, alert |-> FALSE,
          notified |-> notified \ {product_url}]

\* The message of a stock alert.
AlertMessage(product_url) ==
  [title |-> "Microcenter Stock Alert!",
   name |-> ProductName(product_url),
   url |-> product_url]

\* ------------------------------------------------------------ ordered dict

\* A Python dict: a sequence of [k, v] in insertion order, keys distinct.
DictKeys(d) == {d[i].k : i \in 1..Len(d)}
DictHas(d, k) == k \in DictKeys(d)
DictGet(d, k) == d[CHOOSE i \in 1..Len(d) : d[i].k = k].v
\* d.setdefault(k, v): a key already present keeps its value.
DictSetDefault(d, k, v) ==
  IF k \in {d[i].k : i \in 1..Len(d)} THEN d ELSE Append(d, [k |-> k, v |-> v])

\* d[k] = v: in place when k is a key, appended otherwise.
DictSet(d, k, v) ==
  IF DictHas(d, k)
    THEN [i \in 1..Len(d) |-> IF d[i].k = k THEN [k |-> k, v |-> v] ELSE d[i]]
    ELSE Append(d, [k |-> k, v |-> v])

\* ------------------------------------------------------------ daily report

RECURSIVE CountTrue(_)
CountTrue(d) ==
  IF d = <<>> THEN 0 ELSE (IF Head(d).v THEN 1 ELSE 0) + CountTrue(Tail(d))

\* A report that lists the in-stock URLs only.
DailyReportInStockOnly(status, now) ==
  LET InStock(e) == e.v
      listed == SelectSeq(status, InStock)
  IN  [title |-> "StockSmart Daily Report",
       stamp |-> now,
       in_stock_count |-> CountTrue(status),
       out_of_stock_count |-> Len(status) - CountTrue(status),
       lines |-> [i \in 1..Len(listed) |->
                    [name |-> ProductName(listed[i].k), status |-> "IN STOCK"]]]

\* The message send_daily_report builds from stock_status at local time now.
DailyReport(status, now) ==
  LET in_stock_count == CountTrue(status)
      out_of_stock_count == Len(status) - in_stock_count
  IN  [title |-> "StockSmart Daily Report",
       stamp |-> now,
       in_stock_count |-> in_stock_count,
       out_of_stock_count |-> out_of_stock_count,
       lines |-> [i \in 1..Len(status) |->
                    [name |-> ProductName(status[i].k),
                     status |-> IF status[i].v THEN "IN STOCK"
                                ELSE "Out of Stock"]]]

\* ------------------------------------------------------------------- state

VARIABLES
  env,               \* the process environment, fixed for the process lifetime
  pc,                \* position of main
  exit_code,         \* the process's exit status once it has ended
  product_urls,      \* main's locals ...
  check_interval,
  in_stock_interval,
  daily_report_hour,
  notified_urls,
  last_report_date,  \* {} for None, {d} for the date d
  stock_status,
  driver,            \* "none", "open" or "quit"
  any_in_stock,
  idx,               \* position of the for loop in product_urls
  sleep_time,
  clock,             \* local wall time in the configured timezone
  \* history, written but never read by the program's steps
  alerts,            \* per URL: stock alerts handed to send_gotify
  edges,             \* per URL: out-of-stock-to-in-stock edges of its detections
  prev_detect,       \* per URL: "none", or the last detection "in" / "out"
  marker_seen,       \* URLs some fetched page of which held the marker
  cycle_detected,    \* URLs detected in stock in the current cycle
  cycle_checked,     \* URLs checked in the current cycle
  last_check,        \* the URL check the last step made, if it made one
  last_send,         \* the send_gotify call the last step made, if any
  posted,            \* a request has been issued to Gotify
  reported,          \* dates a daily report was handed to send_gotify on
  repeated_report,   \* some date has had more than one daily report
  last_report,       \* the report check the last step made, if any
  clock_went_back,   \* local time has gone backwards at some point
  console,           \* what main printed at startup
  browser_failed,    \* webdriver.Chrome or a page fetch has raised
  open_sessions,     \* browser sessions created and not yet quit
  cycle_sessions,    \* browser sessions created in the current cycle
  cycle_order,       \* the URLs checked in the current cycle, in order
  streak_attempts    \* per URL: alerts handed over in its current in-stock streak

prog == <<pc, exit_code, product_urls, check_interval, in_stock_interval,
          daily_report_hour, notified_urls, last_report_date, stock_status,
          driver, any_in_stock, idx, sleep_time>>
events == <<last_check, last_send, last_report>>
hist == <<alerts, edges, prev_detect, marker_seen, cycle_detected,
          cycle_checked, posted,
          reported, repeated_report, clock_went_back, events>>
res == <<console, browser_failed, open_sessions, cycle_sessions, cycle_order,
         streak_attempts>>
vars == <<env, prog, clock, hist, res>>

Dates == 0..MaxDate
Hours == {8, 9, 23}
Times == [date : Dates, hour : Hours]

\* t is earlier than u.
Earlier(t, u) == t.date < u.date \/ (t.date = u.date /\ t.hour < u.hour)

\* Every URL some explored PRODUCT_URLS value configures.
AllUrls ==
  UNION { LET r == GetProductUrls(v) IN {r.urls[i] : i \in 1..Len(r.urls)} :
          v \in ProductUrlsValues }

NoCheck == [checked |-> FALSE]
NoSend == [sent |-> FALSE]
NoReport == [checked |-> FALSE]
NoEvents ==
  /\ last_check' = NoCheck
  /\ last_send' = NoSend
  /\ last_report' = NoReport

Init ==
  /\ env \in Environments
  /\ pc = "start"
  /\ exit_code = 0
  /\ product_urls = <<>>
  /\ check_interval = 0
  /\ in_stock_interval = 0
  /\ daily_report_hour = 0
  /\ notified_urls = {}
  /\ last_report_date = {}
  /\ stock_status = <<>>
  /\ driver = "none"
  /\ any_in_stock = FALSE
  /\ idx = 0
  /\ sleep_time = 0
  /\ clock \in {t \in Times : t.date = 0}
  /\ alerts = [u \in AllUrls |-> 0]
  /\ edges = [u \in AllUrls |-> 0]
  /\ prev_detect = [u \in AllUrls |-> "none"]
  /\ marker_seen = {}
  /\ cycle_detected = {}
  /\ cycle_checked = {}
  /\ last_check = NoCheck
  /\ last_send = NoSend
  /\ posted = FALSE
  /\ reported = {}
  /\ repeated_report = FALSE
  /\ last_report = NoReport
  /\ clock_went_back = FALSE
  /\ console = "nothing"
  /\ browser_failed = FALSE
  /\ open_sessions = 0
  /\ cycle_sessions = 0
  /\ cycle_order = <<>>
  /\ streak_attempts = [u \in AllUrls |-> 0]

\* ----------------------------------------------------------------- actions

\* main, lines 135-157: resolve the configuration, or exit(1).
Startup ==
  /\ pc = "start"
  /\ LET r == GetProductUrls(env.PRODUCT_URLS)
     IN  IF r.exit
           THEN /\ pc' = "exited"
                /\ exit_code' = 1
                /\ console' = "ERROR: No PRODUCT_URLS configured in environment"
                /\ UNCHANGED <<product_urls, check_interval, in_stock_interval,
                               daily_report_hour>>
           ELSE /\ pc' = "loop_top"
                /\ console' = "Starting stock checker..."
                /\ product_urls' = r.urls
                /\ check_interval' = GetCheckInterval(env.CHECK_INTERVAL)
                /\ in_stock_interval' = GetInStockInterval(env.IN_STOCK_INTERVAL)
                /\ daily_report_hour' = GetDailyReportHour(env.DAILY_REPORT_HOUR)
                /\ UNCHANGED exit_code
  /\ UNCHANGED <<env, notified_urls, last_report_date, stock_status, driver,
                 any_in_stock, idx, sleep_time, clock, hist, browser_failed,
                 open_sessions, cycle_sessions, cycle_order, streak_attempts>>

\* The exploration stops starting cycles once an alert counter is at its bound.
WithinBounds == \A u \in AllUrls : alerts[u] < MaxAlerts

\* main, lines 159-171: a new browser session, or the exception that
\* webdriver.Chrome raises; any_in_stock starts the cycle False.  explored
\* says whether the exploration goes into this cycle.
AcquireDriverWhen(explored) ==
  /\ pc = "loop_top"
  /\ explored
  /\ \E started \in BOOLEAN :
       IF started
         THEN /\ pc' = "for_urls"
              /\ driver' = "open"
              /\ any_in_stock' = FALSE
              /\ idx' = 1
              /\ cycle_detected' = {}
              /\ cycle_checked' = {}
              /\ open_sessions' = open_sessions + 1
              /\ cycle_sessions' = cycle_sessions + 1
              /\ UNCHANGED <<exit_code, browser_failed>>
         ELSE /\ pc' = "crashed"
              /\ exit_code' = 1
              /\ browser_failed' = TRUE
              /\ UNCHANGED <<driver, any_in_stock, idx, cycle_detected,
                             cycle_checked, open_sessions, cycle_sessions>>
  /\ NoEvents
  /\ UNCHANGED <<env, product_urls, check_interval, in_stock_interval,
                 daily_report_hour, notified_urls, last_report_date,
                 stock_status, sleep_time, clock, alerts, edges, prev_detect,
                 marker_seen, posted, reported, repeated_report,
                 clock_went_back, console, cycle_order, streak_attempts>>

\* The cycles explored while the alert counters are within their bound.
AcquireDriver == AcquireDriverWhen(WithinBounds)

\* Every cycle, the alert counters staying at their bound once they reach it.
AcquireDriverAlways == AcquireDriverWhen(TRUE)

\* What the send_gotify calls of this process do, given the request's outcome.
Send(outcome) == SendGotify(env.GOTIFY_URL, env.GOTIFY_TOKEN, outcome)

\* A send_gotify call, as the history records it.
SendEvent(message, sent, outcome) ==
  [sent |-> TRUE, msg |-> message, log |-> SendLog(sent, outcome),
   raised |-> sent.raised]

\* A for loop that steps over every other entry.
NextEntrySkipping(i) == i + 2

\* main, line 172: the for loop goes on to the next entry of product_urls.
NextEntry(i) == i + 1

\* The flag overwritten by each URL's result instead of accumulated.
AnyInStockLast(any, is_in_stock) == is_in_stock

\* main, lines 175-176: the cycle's flag once a URL's result is in.
AnyInStock(any, is_in_stock) == any \/ is_in_stock

\* The loop body with the fetch in a try/except that goes on to the next URL.
CheckUrlProgSkipFailed(fetched, page_source, outcome) ==
  /\ pc = "for_urls"
  /\ idx <= Len(product_urls)
  /\ LET product_url == product_urls[idx]
         r == CheckStock(product_url, notified_urls, page_source, Send(outcome))
     IN  IF ~fetched
           THEN /\ pc' = "for_urls"
                /\ idx' = idx + 1
                /\ UNCHANGED <<notified_urls, stock_status, any_in_stock,
                               exit_code>>
           ELSE /\ pc' = "for_urls"
                /\ notified_urls' = r.notified
                /\ stock_status' = DictSet(stock_status, product_url, r.ret)
                /\ any_in_stock' = AnyInStock(any_in_stock, r.ret)
                /\ idx' = idx + 1
                /\ UNCHANGED exit_code
  /\ UNCHANGED <<env, product_urls, check_interval, in_stock_interval,
                 daily_report_hour, last_report_date, driver, sleep_time, clock>>

\* The loop body of a monitor that exits once an item is found in stock.
CheckUrlProgExitOnStock(fetched, page_source, outcome) ==
  /\ pc = "for_urls"
  /\ idx <= Len(product_urls)
  /\ LET product_url == product_urls[idx]
         r == CheckStock(product_url, notified_urls, page_source, Send(outcome))
     IN  IF ~fetched \/ r.raised
           THEN /\ pc' = "crashed"
                /\ exit_code' = 1
                /\ UNCHANGED <<notified_urls, stock_status, any_in_stock, idx>>
           ELSE /\ pc' = IF r.ret THEN "exited" ELSE "for_urls"
                /\ notified_urls' = r.notified
                /\ stock_status' = DictSet(stock_status, product_url, r.ret)
                /\ any_in_stock' = AnyInStock(any_in_stock, r.ret)
                /\ idx' = idx + 1
                /\ UNCHANGED exit_code
  /\ UNCHANGED <<env, product_urls, check_interval, in_stock_interval,
                 daily_report_hour, last_report_date, driver, sleep_time, clock>>

\* main, lines 172-176, one iteration of the for loop, on the program's
\* variables: the fetch of set_store_cookie raises, or check_stock runs on
\* the page fetched, its result is recorded and the loop moves on.
CheckUrlProg(fetched, page_source, outcome) ==
  /\ pc = "for_urls"
  /\ idx <= Len(product_urls)
  /\ LET product_url == product_urls[idx]
         r == CheckStock(product_url, notified_urls, page_source, Send(outcome))
     IN  IF ~fetched \/ r.raised
           THEN /\ pc' = "crashed"
                /\ exit_code' = 1
                /\ UNCHANGED <<notified_urls, stock_status, any_in_stock, idx>>
           ELSE /\ pc' = "for_urls"
                /\ notified_urls' = r.notified
                /\ stock_status' = DictSet(stock_status, product_url, r.ret)
                /\ any_in_stock' = AnyInStock(any_in_stock, r.ret)
                /\ idx' = NextEntry(idx)
                /\ UNCHANGED exit_code
  /\ UNCHANGED <<env, product_urls, check_interval, in_stock_interval,
                 daily_report_hour, last_report_date, driver, sleep_time, clock>>

\* A history counter after an event that may have happened; it stays at
\* MaxAlerts once there.
Count(n, happened) ==
  IF happened /\ n < MaxAlerts THEN n + 1 ELSE n

\* The same iteration, on the history.
CheckUrlHist(fetched, page_source, outcome) ==
  LET product_url == product_urls[idx]
      sent == Send(outcome)
      r == CheckStock(product_url, notified_urls, page_source, sent)
      detected == Detect(page_source)
  IN  IF ~fetched
        THEN /\ NoEvents
             /\ browser_failed' = TRUE
             /\ UNCHANGED <<alerts, edges, prev_detect, marker_seen,
                            cycle_detected, cycle_checked, posted, reported,
                            repeated_report, clock_went_back, console,
                            open_sessions, cycle_sessions, cycle_order,
                            streak_attempts>>
        ELSE /\ alerts' = [alerts EXCEPT ![product_url] =
                             Count(@, r.alert)]
             /\ edges' = [edges EXCEPT ![product_url] =
                            Count(@, detected /\ prev_detect[product_url] # "in")]
             /\ prev_detect' = [prev_detect EXCEPT ![product_url] =
                                  IF detected THEN "in" ELSE "out"]
             /\ marker_seen' = IF page_source \in PagesWithMarker
                                 THEN marker_seen \cup {product_url}
                                 ELSE marker_seen
             /\ cycle_detected' = IF detected
                                    THEN cycle_detected \cup {product_url}
                                    ELSE cycle_detected
             /\ cycle_checked' = cycle_checked \cup {product_url}
             /\ last_check' = [checked |-> TRUE, url |-> product_url,
                               detected |-> detected,
                               preceding |-> prev_detect[product_url],
                               alert |-> r.alert]
             /\ last_send' = IF r.alert
                               THEN SendEvent(AlertMessage(product_url), sent,
                                              outcome)
                               ELSE NoSend
             /\ last_report' = NoReport
             /\ posted' = (posted \/ (r.alert /\ sent.posted))
             /\ cycle_order' = Append(cycle_order, product_url)
             /\ streak_attempts' =
                  [streak_attempts EXCEPT ![product_url] =
                     IF ~detected THEN 0
                     ELSE Count(IF prev_detect[product_url] = "in" THEN @ ELSE 0,
                                r.alert)]
             /\ UNCHANGED <<reported, repeated_report, clock_went_back,
                            console, browser_failed, open_sessions,
                            cycle_sessions>>

CheckUrl ==
  \E fetched \in BOOLEAN, page_source \in Pages, outcome \in SendOutcomes :
     /\ CheckUrlProg(fetched, page_source, outcome)
     /\ CheckUrlHist(fetched, page_source, outcome)

\* The end of the for loop without driver.quit().
DriverQuitKeepOpen ==
  /\ pc = "for_urls"
  /\ idx > Len(product_urls)
  /\ pc' = "report"
  /\ NoEvents
  /\ UNCHANGED <<env, exit_code, product_urls, check_interval,
                 in_stock_interval, daily_report_hour, notified_urls,
                 last_report_date, stock_status, driver, any_in_stock, idx,
                 sleep_time, clock, alerts, edges, prev_detect, marker_seen,
                 cycle_detected, cycle_checked, posted, reported,
                 repeated_report, clock_went_back, res>>

\* main, line 178: the for loop is over, the session is closed.
DriverQuit ==
  /\ pc = "for_urls"
  /\ idx > Len(product_urls)
  /\ driver' = "quit"
  /\ open_sessions' = open_sessions - 1
  /\ pc' = "report"
  /\ NoEvents
  /\ UNCHANGED <<env, exit_code, product_urls, check_interval,
                 in_stock_interval, daily_report_hour, notified_urls,
                 last_report_date, stock_status, any_in_stock, idx, sleep_time,
                 clock, alerts, edges, prev_detect, marker_seen,
                 cycle_detected, cycle_checked, posted, reported,
                 repeated_report, clock_went_back, console, browser_failed,
                 cycle_sessions, cycle_order, streak_attempts>>

\* The report condition without the test of the last report's date.
ReportDueHourOnly(now, report_hour, last_date) == now.hour >= report_hour

\* The report condition with the hour compared strictly.
ReportDueStrict(now, report_hour, last_date) ==
  now.hour > report_hour /\ last_date # {now.date}

\* main, line 183: it is time for the daily report.
ReportDue(now, report_hour, last_date) ==
  now.hour >= report_hour /\ last_date # {now.date}

\* main, line 189
SleepTime(any, in_stock, check) == IF any THEN in_stock ELSE check

\* The report check recording the date only when the report was delivered.
ReportCheckProgIfDelivered(outcome) ==
  /\ pc = "report"
  /\ LET now == clock
         due == ReportDue(now, daily_report_hour, last_report_date)
     IN  /\ pc' = "sleeping"
         /\ last_report_date' = IF due /\ Send(outcome).delivered
                                  THEN {now.date} ELSE last_report_date
         /\ sleep_time' = SleepTime(any_in_stock, in_stock_interval,
                                    check_interval)
         /\ UNCHANGED exit_code
  /\ UNCHANGED <<env, product_urls, check_interval, in_stock_interval,
                 daily_report_hour, notified_urls, stock_status, driver,
                 any_in_stock, idx, clock>>

\* main, lines 181-190, on the program's variables: the report check, the
\* report when due, and the choice of the sleep interval.
ReportCheckProg(outcome) ==
  /\ pc = "report"
  /\ LET now == clock
         due == ReportDue(now, daily_report_hour, last_report_date)
     IN  IF due /\ Send(outcome).raised
           THEN /\ pc' = "crashed"
                /\ exit_code' = 1
                /\ UNCHANGED <<last_report_date, sleep_time>>
           ELSE /\ pc' = "sleeping"
                /\ last_report_date' = IF due THEN {now.date} ELSE last_report_date
                /\ sleep_time' = SleepTime(any_in_stock, in_stock_interval,
                                           check_interval)
                /\ UNCHANGED exit_code
  /\ UNCHANGED <<env, product_urls, check_interval, in_stock_interval,
                 daily_report_hour, notified_urls, stock_status, driver,
                 any_in_stock, idx, clock>>

\* The same step, on the history.
ReportCheckHist(outcome) ==
  LET now == clock
      due == ReportDue(now, daily_report_hour, last_report_date)
      sent == Send(outcome)
  IN  /\ last_report' = [checked |-> TRUE, sent |-> due, now |-> now,
                         before |-> last_report_date,
                         had |-> now.date \in reported]
      /\ reported' = IF due THEN reported \cup {now.date} ELSE reported
      /\ repeated_report' = (repeated_report \/ (due /\ now.date \in reported))
      /\ last_send' = IF due
                        THEN SendEvent(DailyReport(stock_status, now), sent,
                                       outcome)
                        ELSE NoSend
      /\ last_check' = NoCheck
      /\ posted' = (posted \/ (due /\ sent.posted))
      /\ UNCHANGED <<alerts, edges, prev_detect, marker_seen, cycle_detected,
                     cycle_checked, clock_went_back, res>>

ReportCheck ==
  \E outcome \in SendOutcomes :
     /\ ReportCheckProg(outcome)
     /\ ReportCheckHist(outcome)

\* main, line 191: the process sleeps; local time is t when it wakes up,
\* earlier than it was if the wall clock was set back meanwhile.
Sleep ==
  /\ pc = "sleeping"
  /\ pc' = "loop_top"
  /\ \E t \in Times :
       /\ clock' = t
       /\ clock_went_back' = (clock_went_back \/ Earlier(t, clock))
  /\ cycle_sessions' = 0
  /\ cycle_order' = <<>>
  /\ NoEvents
  /\ UNCHANGED <<env, exit_code, product_urls, check_interval,
                 in_stock_interval, daily_report_hour, notified_urls,
                 last_report_date, stock_status, driver, any_in_stock, idx,
                 sleep_time, alerts, edges, prev_detect, marker_seen,
                 cycle_detected, cycle_checked, posted, reported,
                 repeated_report, console, browser_failed, open_sessions,
                 streak_attempts>>

Next ==
  \/ Startup
  \/ AcquireDriver
  \/ CheckUrl
  \/ DriverQuit
  \/ ReportCheck
  \/ Sleep

Spec == Init /\ [][Next]_vars

\* The monitor as a running process: started with every notifier setting in
\* place and the default intervals, it takes its next step whenever it has
\* one, cycle after cycle.
LiveEnvironments ==
  { e \in Environments :
      /\ Truthy(e.GOTIFY_URL) /\ Truthy(e.GOTIFY_TOKEN)
      /\ e.PRODUCT_URLS \in {Unset, SetTo(<<"a", ",", " ", "b", ",">>),
                              SetTo(<<" ", ",", " ">>)} }

LiveInit == Init /\ env \in LiveEnvironments

LiveNext ==
  \/ Startup
  \/ AcquireDriverAlways
  \/ CheckUrl
  \/ DriverQuit
  \/ ReportCheck
  \/ Sleep

LiveSpec == LiveInit /\ [][LiveNext]_vars /\ WF_vars(LiveNext)

\* ------------------------------------------------------------------ claims

Configured == Truthy(env.GOTIFY_URL) /\ Truthy(env.GOTIFY_TOKEN)
ConfiguredUrls == {product_urls[i] : i \in 1..Len(product_urls)}
IsAlert(send) == send.sent /\ send.msg.title = "Microcenter Stock Alert!"
IsReport(send) == send.sent /\ send.msg.title = "StockSmart Daily Report"

\* C1: a check of URL u hands a stock alert for u to the notifier if and
\* only if it detects u in stock and the preceding check of u did not (or
\* there was none); so the alerts for u number the out-of-stock-to-in-stock
\* edges of u's detection history.
C1_EdgeTriggeredAlert ==
  /\ last_check.checked =>
       /\ last_check.alert <=>
            (last_check.detected /\ last_check.preceding # "in")
       /\ last_check.alert <=>
            (IsAlert(last_send) /\ last_send.msg.url = last_check.url)
  /\ ~last_check.checked => ~IsAlert(last_send)
  /\ \A u \in AllUrls : alerts[u] = edges[u]

\* The history false, true, false, true of some URL has been seen, with two
\* alerts, and the last step detected a URL in stock again without alerting.
C1_Witness ==
  /\ \E u \in AllUrls : alerts[u] = MaxAlerts /\ edges[u] = MaxAlerts
  /\ last_check.checked /\ last_check.detected
  /\ last_check.preceding = "in" /\ ~last_check.alert

\* C2: after every check of u, u is in notified_urls if and only if the
\* check detected u in stock; at the end of every completed cycle
\* notified_urls is the set of URLs whose stock_status is true.
C2_NotifiedIffInStock ==
  /\ last_check.checked =>
       (last_check.url \in notified_urls <=> last_check.detected)
  /\ pc \in {"report", "sleeping"} =>
       notified_urls = {u \in DictKeys(stock_status) : DictGet(stock_status, u)}

\* A cycle has ended with one URL notified and another out of stock that had
\* been in stock before.
C2_Witness ==
  /\ pc = "sleeping"
  /\ notified_urls # {}
  /\ \E u \in DictKeys(stock_status) :
       ~DictGet(stock_status, u) /\ edges[u] > 0 /\ u \notin notified_urls

C4_SendOutcomeIrrelevant ==
  [][ last_send'.sent =>
        /\ ~last_send'.raised
        /\ IF IsAlert(last_send')
             THEN \E page_source \in Pages : CheckUrlProg(TRUE, page_source, "ok")
             ELSE ReportCheckProg("ok") ]_vars

\* A send has just failed and the loop is at its next step.
C4_Witness ==
  /\ last_send.sent
  /\ last_send.log \in {"transport_error", "http_error"}
  /\ pc \in {"for_urls", "sleeping"}

\* C5: when GOTIFY_URL or GOTIFY_TOKEN is unset or empty, no request is
\* issued to Gotify, for alerts or for reports, and no notify call raises.
C5_UnconfiguredNoRequest ==
  ~Configured =>
    /\ ~posted
    /\ last_send.sent => (last_send.log = "skipped" /\ ~last_send.raised)

\* Without configuration, an alert has been handed to the notifier before
\* and a report has just been.
C5_Witness ==
  /\ ~Configured
  /\ IsReport(last_send)
  /\ \E u \in AllUrls : alerts[u] > 0

\* C6: while local time has not gone backwards, no date has had more than
\* one daily report, and a report check on a date that has had its report
\* sends nothing and leaves last_report_date as it was; every daily report
\* is sent at a local hour that is at least the report hour.
C6_OneReportPerDate ==
  /\ ~clock_went_back => ~repeated_report
  /\ last_report.checked =>
       /\ last_report.sent => last_report.now.hour >= daily_report_hour
       /\ (~clock_went_back /\ last_report.had) =>
            (~last_report.sent /\ last_report_date = last_report.before)

\* With time never set back, two dates have had their report and the last
\* step was a further report check on a date that had had its own.
C6_Witness ==
  /\ ~clock_went_back
  /\ Cardinality(reported) = 2
  /\ last_report.checked /\ last_report.had /\ ~last_report.sent
  /\ last_report.now.hour >= daily_report_hour

\* C7: a report check sends the daily report if and only if the local hour
\* is at least the report hour and last_report_date is not the local date
\* (None included); last_report_date is the local date after a report and
\* unchanged otherwise; so the first report check at or after the report
\* hour of a date sends that date's report.
C7_ReportCondition ==
  last_report.checked =>
    /\ last_report.sent <=>
         (/\ last_report.now.hour >= daily_report_hour
          /\ last_report.before # {last_report.now.date})
    /\ last_report.sent <=> IsReport(last_send)
    /\ last_report_date =
         (IF last_report.sent THEN {last_report.now.date} ELSE last_report.before)
    /\ (last_report.now.hour >= daily_report_hour /\ ~last_report.had)
         => last_report.sent

\* A report has just been sent at the report hour itself, on a date other
\* than that of the report before.
C7_Witness ==
  /\ last_report.checked /\ last_report.sent
  /\ last_report.now.hour = daily_report_hour
  /\ last_report.before # {}
  /\ last_report_date = {last_report.now.date}

\* C8: the sleep after a cycle lasts the in-stock interval if some URL was
\* detected in stock in that cycle and the check interval otherwise,
\* whatever earlier cycles detected and whether or not an alert was sent.
C8_SleepInterval ==
  pc = "sleeping" =>
    sleep_time = (IF cycle_detected # {} THEN in_stock_interval ELSE check_interval)

\* The process sleeps the check interval after a cycle without detection
\* that follows a cycle with an alert, the two intervals being different.
C8_Witness ==
  /\ pc = "sleeping"
  /\ cycle_detected = {}
  /\ \E u \in ConfiguredUrls : alerts[u] > 0
  /\ sleep_time = check_interval
  /\ check_interval # in_stock_interval

\* C9: after every completed cycle the keys of stock_status are the distinct
\* configured URLs, each checked in that cycle, and stock_status[u] is the
\* result of the most recent check of u.
C9_StatusAfterCycle ==
  pc \in {"report", "sleeping"} =>
    /\ DictKeys(stock_status) = ConfiguredUrls
    /\ Len(stock_status) = Cardinality(ConfiguredUrls)
    /\ cycle_checked = ConfiguredUrls
    /\ \A u \in ConfiguredUrls :
         DictGet(stock_status, u) = (prev_detect[u] = "in")

\* A cycle over two URLs has ended, one in stock, the other out of stock
\* after having been in stock in an earlier check.
C9_Witness ==
  /\ pc = "sleeping"
  /\ Len(stock_status) = 2
  /\ \E u, w \in ConfiguredUrls :
       /\ DictGet(stock_status, u) /\ ~DictGet(stock_status, w)
       /\ edges[w] > 0

\* C10: a daily report that is sent holds one line per distinct configured
\* URL, in the order of stock_status, with the status the cycle just
\* finished recorded for it, and its two counts add up to the number of
\* distinct configured URLs.
C10_ReportContent ==
  IsReport(last_send) =>
    LET m == last_send.msg
        StatusText(u) == IF prev_detect[u] = "in" THEN "IN STOCK"
                         ELSE "Out of Stock"
    IN  /\ cycle_checked = ConfiguredUrls
        /\ Len(m.lines) = Cardinality(ConfiguredUrls)
        /\ {stock_status[i].k : i \in 1..Len(m.lines)} = ConfiguredUrls
        /\ \A i \in 1..Len(m.lines) :
             m.lines[i] = [name |-> ProductName(stock_status[i].k),
                           status |-> StatusText(stock_status[i].k)]
        /\ m.in_stock_count =
             Cardinality({u \in ConfiguredUrls : prev_detect[u] = "in"})
        /\ m.in_stock_count + m.out_of_stock_count = Cardinality(ConfiguredUrls)

\* A report over two URLs has just been sent, one in stock and one out.
C10_Witness ==
  /\ IsReport(last_send)
  /\ Len(last_send.msg.lines) = 2
  /\ last_send.msg.in_stock_count = 1
  /\ last_send.msg.out_of_stock_count = 1

\* C11: when PRODUCT_URLS is unset or empty the process prints the error and
\* exits with status 1 at startup: no browser session has been created, no
\* page fetched, no URL checked and nothing handed to the notifier.
C11_NoUrlsExit ==
  (~env.PRODUCT_URLS.set \/ env.PRODUCT_URLS.val = <<>>) =>
    /\ pc \in {"start", "exited"}
    /\ pc = "exited" =>
         /\ exit_code = 1
         /\ console = "ERROR: No PRODUCT_URLS configured in environment"
    /\ driver = "none" /\ open_sessions = 0 /\ cycle_sessions = 0
    /\ ~browser_failed
    /\ \A u \in AllUrls : prev_detect[u] = "none" /\ alerts[u] = 0
    /\ ~posted /\ reported = {} /\ ~last_send.sent

\* PRODUCT_URLS is set to the empty string and the process has exited.
C11_Witness ==
  /\ env.PRODUCT_URLS.set /\ env.PRODUCT_URLS.val = <<>>
  /\ pc = "exited"
  /\ exit_code = 1

\* C12 (as claimed): once main is past its startup and has not exited, the
\* configured URL list is non-empty and each element is a non-empty trimmed
\* string.
C12_LoopHasUrls ==
  pc \notin {"start", "exited"} =>
    /\ product_urls # <<>>
    /\ \A i \in 1..Len(product_urls) :
         product_urls[i] # <<>> /\ Strip(product_urls[i]) = product_urls[i]

\* C13: when webdriver.Chrome or a page fetch raises, the process ends with
\* a non-zero status in that step, which checks no URL, sends nothing and
\* leaves notified_urls, stock_status, last_report_date and the alerts and
\* reports already made as they were; no step follows it.
C13_FetchFailureFatal ==
  [][ /\ ~browser_failed
      /\ browser_failed' =>
           /\ pc' = "crashed" /\ exit_code' = 1
           /\ ~last_check'.checked /\ ~last_send'.sent /\ ~last_report'.checked
           /\ UNCHANGED <<notified_urls, stock_status, last_report_date,
                          sleep_time, alerts, posted, reported, cycle_order>> ]_vars

\* A fetch has raised after a URL checked earlier in the cycle was found in
\* stock and notified; the process is over and that URL's state is kept.
C13_Witness ==
  /\ browser_failed
  /\ pc = "crashed"
  /\ cycle_order # <<>>
  /\ \E u \in cycle_detected :
       u \in notified_urls /\ DictGet(stock_status, u) /\ alerts[u] > 0

\* C14: a cycle creates one browser session before its first fetch and quits
\* it after its last URL check, before the report check and the sleep; no
\* state has more than one session open, none is open while the process
\* sleeps, and a check uses the session its own cycle created.
C14_OneSessionPerCycle ==
  /\ open_sessions \in {0, 1}
  /\ cycle_sessions \in {0, 1}
  /\ pc = "loop_top" => (open_sessions = 0 /\ cycle_sessions = 0)
  /\ pc = "for_urls" =>
       (driver = "open" /\ open_sessions = 1 /\ cycle_sessions = 1)
  /\ last_check.checked =>
       (driver = "open" /\ open_sessions = 1 /\ cycle_sessions = 1)
  /\ pc \in {"report", "sleeping"} =>
       /\ driver = "quit" /\ open_sessions = 0 /\ cycle_sessions = 1
       /\ cycle_order = product_urls
  /\ last_report.checked => open_sessions = 0

\* The process sleeps after a later cycle (a report was sent in an earlier
\* one) that checked two URLs; its one session is closed.
C14_Witness ==
  /\ pc = "sleeping"
  /\ ~last_report.sent /\ reported # {}
  /\ Len(cycle_order) = 2
  /\ cycle_sessions = 1 /\ open_sessions = 0 /\ driver = "quit"

\* C15 (as claimed): every browser session that was created has been quit
\* when a cycle ends, when the next begins and when the process has ended.
C15_SessionReleased ==
  pc \in {"loop_top", "sleeping", "exited", "crashed"} => open_sessions = 0

\* C16: within a cycle the entries of product_urls are checked one after
\* the other, each once, in list order: the checks made so far are a prefix
\* of the list, a check extends it by the next entry, and the report check
\* is made only once the whole list has been checked.
C16_SequentialInOrder ==
  /\ Len(cycle_order) <= Len(product_urls)
  /\ \A i \in 1..Len(cycle_order) : cycle_order[i] = product_urls[i]
  /\ last_check.checked =>
       last_check.url = product_urls[Len(cycle_order)]
  /\ (pc \in {"report", "sleeping"} \/ last_report.checked) =>
       cycle_order = product_urls

\* The report check has just been made after a cycle that checked the same
\* URL twice, as the list has it.
C16_Witness ==
  /\ last_report.checked
  /\ Len(cycle_order) = 2
  /\ cycle_order[1] = cycle_order[2]

\* C17: unless webdriver.Chrome or a fetch raises, the monitor never stops:
\* the process ends only on the configuration error or on such a failure,
\* never in a step that detects stock or sends an alert or a report; a
\* cycle leads to the sleep, the sleep to the next cycle and the cycle to a
\* check of every configured URL.
C17_RunsForever ==
  /\ [](pc \in {"exited", "crashed"} =>
          /\ browser_failed \/ console = "ERROR: No PRODUCT_URLS configured in environment"
          /\ ~last_send.sent /\ ~last_check.checked)
  /\ (pc = "loop_top") ~> (browser_failed \/ pc = "sleeping")
  /\ (pc = "sleeping") ~> (pc = "loop_top")
  /\ \A u \in AllUrls :
       (pc = "loop_top" /\ u \in ConfiguredUrls)
         ~> (browser_failed \/ (last_check.checked /\ last_check.url = u))

\* A URL is checked, and found out of stock, in a cycle that follows its
\* last counted alert and a daily report.
C17_Witness ==
  /\ last_check.checked /\ ~last_check.detected
  /\ alerts[last_check.url] = MaxAlerts
  /\ last_check.preceding = "out"
  /\ reported # {}

\* C18: a check that hands over an alert adds the URL to notified_urls
\* whether the alert is delivered, fails or is skipped for want of
\* configuration; an in-stock streak of a URL has exactly one alert handed
\* over, and a URL not in a streak none.
C18_OneAttemptPerStreak ==
  /\ (last_check.checked /\ last_check.alert) =>
       /\ last_send.sent
       /\ last_check.url \in notified_urls
  /\ \A u \in AllUrls :
       streak_attempts[u] = (IF prev_detect[u] = "in" THEN 1 ELSE 0)

\* Without configuration, a URL whose one alert of the streak was skipped
\* is found in stock again and no alert is handed over.
C18_Witness ==
  /\ ~Configured
  /\ last_check.checked /\ last_check.detected
  /\ last_check.preceding = "in" /\ ~last_check.alert
  /\ streak_attempts[last_check.url] = 1

C20_Frame ==
  [][ /\ last_check'.checked =>
           /\ notified_urls' \ {last_check'.url} = notified_urls \ {last_check'.url}
           /\ DictKeys(stock_status') \ {last_check'.url}
                = DictKeys(stock_status) \ {last_check'.url}
           /\ \A u \in DictKeys(stock_status) \ {last_check'.url} :
                DictGet(stock_status', u) = DictGet(stock_status, u)
           /\ last_report_date' = last_report_date
      /\ last_report'.checked =>
           (notified_urls' = notified_urls /\ stock_status' = stock_status)
      /\ pc = "sleeping" =>
           /\ notified_urls' = notified_urls
           /\ stock_status' = stock_status
           /\ last_report_date' = last_report_date ]_vars

\* A URL has just left the notified set while another stays in it.
C20_Witness ==
  /\ last_check.checked /\ ~last_check.detected
  /\ last_check.preceding = "in"
  /\ last_check.url \notin notified_urls
  /\ \E u \in DictKeys(stock_status) \ {last_check.url} :
       u \in notified_urls /\ DictGet(stock_status, u)

====
